---- MODULE Spec2Model ----
(***************************************************************************)
(* State-machine model of src/mssql_mcp_server/server.py: the MCP handlers *)
(* list_resources, read_resource, list_tools and call_tool, the            *)
(* configuration resolver get_db_config, and the pyodbc connection and     *)
(* cursor objects the handlers drive.                                      *)
(*                                                                         *)
(* Python strings are sequences of one-character strings, so that strip,   *)
(* upper, startswith, slicing and join are computed, not assumed.          *)
(*                                                                         *)
(* The handlers are coroutines without an await in their bodies: a request *)
(* runs from its first statement to its return or raise before the event   *)
(* loop runs anything else, so the model has one request in flight.        *)
(*                                                                         *)
(* pyodbc (the driver the source imports at line 4) gives the `with`       *)
(* statements of the handlers their meaning:                               *)
(*   - Cursor.__exit__ commits the connection's transaction when the block *)
(*     was left without an exception (autocommit is off by default), and   *)
(*     does nothing otherwise; it does not close the cursor.               *)
(*   - Connection.__exit__ commits when the block was left without an      *)
(*     exception and rolls back otherwise; it does not close the           *)
(*     connection.                                                         *)
(*   - A connection is closed by Connection.close(), which the source      *)
(*     never calls, or when the interpreter destroys the object: with      *)
(*     CPython's reference counting that is when the handler's frame is    *)
(*     torn down on return, and, when the handler raises, only when the    *)
(*     caller drops the exception whose traceback holds the frame.         *)
(***************************************************************************)
EXTENDS Integers, Sequences, FiniteSets, TLC

VARIABLES
    env,        \* the process environment: variable name -> value (None when unset)
    main,       \* main()'s locals `config` and `_`, NoMain until main() has assigned them
    tables,     \* the names of the base tables of the database
    pc,         \* position of the request in flight
    req,        \* the request: [op, name, query, uri]
    config,     \* get_db_config's redacted config (None before it returned)
    connstr,    \* get_db_config's connection string
    conn,       \* the request's connection object
    cur,        \* what the cursor holds after the last execute
    exc,        \* the exception travelling through the handler, or NoExc
    ret,        \* the value the body's return statement computed, or NoRet
    result,     \* how the handler ended: [kind: "none" | "return" | "raise", ...]
    events,     \* driver calls of this request, in order
    log         \* log records of main(), then of the request in flight, in order

vars == <<env, main, tables, pc, req, config, connstr, conn, cur, exc, ret, result, events, log>>

----------------------------------------------------------------------------
(* Bounds of the model *)

\* the largest affected-row count the driver reports
MaxRowcount == 1

\* the number of rows of the largest table
MaxTableRows == 101

\* SELECT TOP 100: the most rows read_resource asks for
RowCap == 100

----------------------------------------------------------------------------
(* Python strings *)

\* Python's None
None == <<"None">>

Lower == <<"a","b","c","d","e","f","g","h","i","j","k","l","m",
           "n","o","p","q","r","s","t","u","v","w","x","y","z">>

UpperLetters == <<"A","B","C","D","E","F","G","H","I","J","K","L","M",
                  "N","O","P","Q","R","S","T","U","V","W","X","Y","Z">>

Digits == {"0","1","2","3","4","5","6","7","8","9"}

Range(s) == {s[i] : i \in DOMAIN s}

\* str.isalnum for one character
IsAlnum(c) == c \in Range(Lower) \cup Range(UpperLetters) \cup Digits

\* the characters str.strip removes
Whitespace == {" ", "\t", "\n", "\r"}

UpperChar(c) ==
    IF c \in Range(Lower)
    THEN UpperLetters[CHOOSE i \in DOMAIN Lower : Lower[i] = c]
    ELSE c

\* str.upper
Upper(s) == [i \in DOMAIN s |-> UpperChar(s[i])]

\* str.strip
Strip(s) ==
    LET keep == {i \in DOMAIN s : s[i] \notin Whitespace}
    IN  IF keep = {} THEN <<>>
        ELSE LET lo == CHOOSE i \in keep : \A j \in keep : i <= j
                 hi == CHOOSE i \in keep : \A j \in keep : j <= i
             IN  SubSeq(s, lo, hi)

\* str.startswith
StartsWith(s, p) == Len(s) >= Len(p) /\ SubSeq(s, 1, Len(p)) = p

\* str.endswith
EndsWith(s, p) == Len(s) >= Len(p) /\ SubSeq(s, Len(s) - Len(p) + 1, Len(s)) = p

\* s[:n] for n >= 0
Prefix(s, n) == SubSeq(s, 1, IF n < Len(s) THEN n ELSE Len(s))

\* s[-n:] for n > 0
Suffix(s, n) == SubSeq(s, IF Len(s) > n THEN Len(s) - n + 1 ELSE 1, Len(s))

\* [c for c in s if keep(c)]
RECURSIVE SelectChars(_, _)
SelectChars(s, keep) ==
    IF s = <<>> THEN <<>>
    ELSE (IF Head(s) \in keep THEN <<Head(s)>> ELSE <<>>) \o SelectChars(Tail(s), keep)

\* sep.join(parts)
RECURSIVE Join(_, _)
Join(sep, parts) ==
    IF parts = <<>> THEN <<>>
    ELSE IF Len(parts) = 1 THEN parts[1]
    ELSE LET half == Len(parts) \div 2
         IN  Join(sep, SubSeq(parts, 1, half)) \o sep
             \o Join(sep, SubSeq(parts, half + 1, Len(parts)))

\* the index of the first c in s, or 0
FirstIndex(s, c) ==
    IF c \in Range(s) THEN CHOOSE i \in DOMAIN s : s[i] = c /\ \A j \in 1..(i-1) : s[j] # c
    ELSE 0

\* s.split(c)[0]
SplitHead(s, c) == IF FirstIndex(s, c) = 0 THEN s ELSE SubSeq(s, 1, FirstIndex(s, c) - 1)

\* bool(value) of a string or None
Truthy(v) == v # None /\ v # <<>>

\* str(value) inside an f-string
Str(v) == IF v = None THEN <<"N","o","n","e">> ELSE v

----------------------------------------------------------------------------
(* get_db_config *)

\* os.getenv(name, default)
GetEnv(e, name, default) == IF e[name] = None THEN default ELSE e[name]

\* clean_env_var: one layer of surrounding quotes is removed
clean_env_var(e, name, default) ==
    LET value == GetEnv(e, name, default)
    IN  IF Truthy(value)
           /\ \/ StartsWith(value, <<"'">>) /\ EndsWith(value, <<"'">>)
              \/ StartsWith(value, <<"\"">>) /\ EndsWith(value, <<"\"">>)
        THEN SubSeq(value, 2, Len(value) - 1)
        ELSE value

DefaultDriver == <<"ODBC Driver 18 for SQL Server">>
DefaultHost == <<"localhost">>
DefaultPort == <<"1433">>

Driver(e) == clean_env_var(e, "MSSQL_DRIVER", DefaultDriver)
Server(e) == clean_env_var(e, "MSSQL_HOST", DefaultHost)
Port(e) == clean_env_var(e, "MSSQL_PORT", DefaultPort)
User(e) == clean_env_var(e, "MSSQL_USER", None)
Password(e) == clean_env_var(e, "MSSQL_PASSWORD", None)
Database(e) == clean_env_var(e, "MSSQL_DATABASE", None)

\* the record the password branch of get_db_config logs
PasswordLog(e) ==
    LET password == Password(e)
    IN  IF Truthy(password) /\ Len(password) > 4
        THEN [level |-> "info",
              msg |-> <<"Debug - Password format: begins with '">> \o Prefix(password, 2)
                      \o <<"', ends with '">> \o Suffix(password, 2)
                      \o <<"', contains special chars: '">>
                      \o SelectChars(password, {c \in Range(password) : ~IsAlnum(c)})
                      \o <<"'">>]
        ELSE [level |-> "warning", msg |-> <<"Password is too short or not provided!">>]

\* get_db_config as it would be if the database name were not among the required settings
ConfigMissing_DatabaseOptional(e) == ~(Truthy(User(e)) /\ Truthy(Password(e)))

\* not all([user, password, database])
ConfigMissing(e) == ~(Truthy(User(e)) /\ Truthy(Password(e)) /\ Truthy(Database(e)))

\* the records get_db_config logs before it decides
ConfigLogHead(e) ==
    << [level |-> "info", msg |-> <<"Reading database configuration from environment variables...">>],
       PasswordLog(e),
       [level |-> "info", msg |-> <<"Using driver: ">> \o Driver(e)],
       [level |-> "info", msg |-> <<"Connecting to server: ">> \o Server(e) \o <<":">> \o Port(e)],
       [level |-> "info", msg |-> <<"Database: ">> \o Str(Database(e)) \o <<", User: ">> \o Str(User(e))] >>

\* every record one call of get_db_config logs
GetDbConfigLog(e) ==
    ConfigLogHead(e) \o
    IF ConfigMissing(e)
    THEN << [level |-> "error", msg |-> <<"Missing required database configuration. Please check environment variables:">>],
            [level |-> "error", msg |-> <<"MSSQL_USER, MSSQL_PASSWORD, and MSSQL_DATABASE are required">>] >>
    ELSE << [level |-> "info", msg |-> <<"Connection string format: Driver={...};Server=...;Database=...;UID=...;PWD=***;...">>] >>

\* ";".join(connection_params)
ConnectionString(e) ==
    Join(<<";">>,
         << <<"Driver={">> \o Driver(e) \o <<"}">>,
            <<"Server=">> \o Server(e) \o <<",">> \o Port(e),
            <<"Database=">> \o Database(e),
            <<"UID=">> \o User(e),
            <<"PWD=">> \o Password(e),
            <<"TrustServerCertificate=">> \o GetEnv(e, "TrustServerCertificate", <<"yes">>),
            <<"Encrypt=">> \o GetEnv(e, "Encrypt", <<"yes">>),
            <<"Connection Timeout=">> \o GetEnv(e, "ConnectionTimeout", <<"60">>),
            <<"Login Timeout=">> \o GetEnv(e, "LoginTimeout", <<"60">>),
            <<"MARS_Connection=yes">> >>)

\* the config dictionary get_db_config returns
RedactedConfig(e) ==
    [driver |-> Driver(e),
     server |-> Server(e) \o <<":">> \o Port(e),
     user |-> User(e),
     database |-> Database(e),
     password |-> <<"********">>]

----------------------------------------------------------------------------
(* The requests the protocol layer delivers, and what the database answers *)

ToolName == <<"e","x","e","c","u","t","e","_","s","q","l">>

Scheme == <<"m","s","s","q","l",":","/","/">>

SELECT == <<"S","E","L","E","C","T">>

SHOW_TABLES == <<"S","H","O","W"," ","T","A","B","L","E","S">>

CatalogQuery == <<"SELECT TABLE_NAME FROM INFORMATION_SCHEMA.TABLES WHERE TABLE_TYPE = 'BASE TABLE';">>

\* values an environment variable can have
UserValues == {None, <<"s","a">>, <<"'","s","a","'">>}
PasswordValues ==
    {None, <<>>, <<"p","w">>, <<"a","b","!","c","d","e">>, <<"x","y","!","c","d","e">>,
     <<"\"","a","b","#","c","d","e","\"">>}
DatabaseValues == {None, <<"d","b">>, <<"\"","d","b","\"">>}

Environments ==
    {[v \in {"MSSQL_DRIVER", "MSSQL_HOST", "MSSQL_PORT", "MSSQL_USER", "MSSQL_PASSWORD",
             "MSSQL_DATABASE", "TrustServerCertificate", "Encrypt", "ConnectionTimeout",
             "LoginTimeout"} |->
         CASE v = "MSSQL_USER" -> u
           [] v = "MSSQL_PASSWORD" -> p
           [] v = "MSSQL_DATABASE" -> d
           [] OTHER -> None] :
        u \in UserValues, p \in PasswordValues, d \in DatabaseValues}

TableNames == {<<"a">>, <<"O","r">>}

\* the orders in which a query without ORDER BY can list a set of names
Orders(S) == {q \in UNION {[1..n -> S] : n \in {Cardinality(S)}} : Range(q) = S}

ToolNames == {ToolName, <<"d","r","o","p">>}

Queries ==
    {None, <<>>, <<" ">>,
     <<"S","E","L","E","C","T"," ","1">>,
     <<" ","s","e","l","e","c","t"," ","x","\n">>,
     <<"S","H","O","W"," ","T","A","B","L","E","S">>,
     <<"\t","s","h","o","w"," ","T","a","b","l","e","s"," ">>,
     <<"S","H","O","W"," ","T","A","B","L","E","S",";">>,
     <<"U","P","D","A","T","E"," ","a">>}

Uris ==
    {Scheme \o <<"a">> \o <<"/","d","a","t","a">>,
     Scheme \o <<"O","r">>,
     <<"h","t","t","p",":","/","/","a">>}

\* the result sets a statement can produce: column names and stringified rows
ResultSets ==
    {[columns |-> << <<"I","d">>, <<"N">> >>, rows |-> <<>>],
     [columns |-> << <<"I","d">>, <<"N">> >>,
      rows |-> << << <<"1">>, <<"A","n","n">> >>, << <<"2">>, <<"B","o">> >> >>]}

\* what the cursor holds after an execute the server accepted
Responses ==
    {[hasResult |-> TRUE, columns |-> r.columns, rows |-> r.rows, rowcount |-> -1] :
        r \in ResultSets}
    \cup
    {[hasResult |-> FALSE, columns |-> <<>>, rows |-> <<>>, rowcount |-> n] :
        n \in -1..MaxRowcount}

\* the text of a cell
CellValues == {<<"A">>, <<"x","\n","y">>}

\* what a table can hold: column names and stringified rows
TableContents ==
    {[columns |-> << <<"I","d">>, <<"N">> >>, rows |-> [i \in 1..n |-> << <<"1">>, c >>]] :
        n \in {0, 1, RowCap, MaxTableRows}, c \in CellValues}

\* SELECT TOP 100 *: the server returns the first RowCap rows at most
Top(rows) == SubSeq(rows, 1, IF Len(rows) < RowCap THEN Len(rows) ELSE RowCap)

\* what the cursor holds after read_resource's select
ReadResponses ==
    {[hasResult |-> TRUE, columns |-> t.columns, rows |-> Top(t.rows), rowcount |-> -1] :
        t \in TableContents}

\* the result set of the catalog query, in one of its possible orders
CatalogResponses ==
    {[hasResult |-> TRUE, columns |-> << <<"TABLE_NAME">> >>,
      rows |-> [i \in DOMAIN o |-> <<o[i]>>], rowcount |-> -1] : o \in Orders(tables)}

\* str(e) of the errors the driver raises
ErrorTexts ==
    {<<"Login timeout expired">>, <<"Cannot open database">>, <<"Login failed">>,
     <<"Could not find stored procedure">>}

NoExc == [type |-> "none", msg |-> <<>>]
NoCursor == [hasResult |-> FALSE, columns |-> <<>>, rows |-> <<>>, rowcount |-> -1]
NoConn == [state |-> "none", commits |-> 0, closes |-> 0]
NoRet == [set |-> FALSE, value |-> <<>>]
NoResult == [kind |-> "none", exc |-> NoExc, value |-> <<>>]
NoReq == [op |-> "none", name |-> <<>>, query |-> <<>>, uri |-> <<>>]
NoMain == [config |-> None, connstr |-> None]

Event(call, arg, ok) == [call |-> call, arg |-> arg, ok |-> ok]

Info(msg) == [level |-> "info", msg |-> msg]
ErrorLog(msg) == [level |-> "error", msg |-> msg]

----------------------------------------------------------------------------
(* What the handlers compute *)

\* uri_str[8:].split('/')[0]
TableOf(uri) == SplitHead(SubSeq(uri, Len(Scheme) + 1, Len(uri)), "/")

\* the statement the handler hands to cursor.execute first
Statement(r) ==
    CASE r.op = "list_resources" -> CatalogQuery
      [] r.op = "read_resource" -> <<"SELECT TOP 100 * FROM ">> \o TableOf(r.uri)
      [] OTHER -> r.query

\* query.strip().upper() == "SHOW TABLES"
IsShowTables(query) == Upper(Strip(query)) = SHOW_TABLES

\* query.strip().upper().startswith("SELECT")
IsSelect(query) == StartsWith(Upper(Strip(query)), SELECT)

\* "\n".join([",".join(columns)] + [",".join(map(str, row)) for row in rows])
RenderTable(c) ==
    Join(<<"\n">>, <<Join(<<",">>, c.columns)>> \o [i \in DOMAIN c.rows |-> Join(<<",">>, c.rows[i])])

\* "\n".join(["Tables_in_<database>"] + [table[0] for table in tables])
RenderShowTables(cfg, c) ==
    Join(<<"\n">>, << <<"Tables_in_">> \o cfg.database >> \o [i \in DOMAIN c.rows |-> c.rows[i][1]])

\* the integers the model formats
IntText(n) == IF n < 0 THEN <<"-">> \o <<ToString(-n)>> ELSE <<ToString(n)>>

\* the acknowledgment as it would be if a count of 0 were left out
RenderAck_ZeroOmitted(c) ==
    IF c.rowcount = 0 THEN <<"Query executed successfully.">>
    ELSE <<"Query executed successfully. Rows affected: ">> \o IntText(c.rowcount)

\* f"Query executed successfully. Rows affected: {cursor.rowcount}"
RenderAck(c) == <<"Query executed successfully. Rows affected: ">> \o IntText(c.rowcount)

\* f"Error executing query: {str(e)}"
RenderError(e) == <<"Error executing query: ">> \o e.msg

\* one Resource per row of the catalog query
Resources(c) ==
    [i \in DOMAIN c.rows |->
        [uri |-> Scheme \o c.rows[i][1] \o <<"/","d","a","t","a">>,
         name |-> <<"Table: ">> \o c.rows[i][1],
         mimeType |-> <<"text/plain">>,
         description |-> <<"Data in table: ">> \o c.rows[i][1]]]

\* the tool list_tools describes
ToolDescriptor ==
    [name |-> ToolName,
     description |-> <<"Execute an SQL query on the MSSQL server">>,
     required |-> << <<"q","u","e","r","y">> >>]

\* the diagnostics list_resources logs for a database error
ListFailureLog(e) ==
    <<ErrorLog(<<"Failed to list resources: ">> \o e.msg)>> \o
    (CASE e.msg = <<"Login timeout expired">> ->
            <<ErrorLog(<<"Connection timed out - check network/firewall settings or increase timeout">>)>>
       [] e.msg = <<"Cannot open database">> ->
            <<ErrorLog(<<"Database access error - check database name and user permissions">>)>>
       [] e.msg = <<"Login failed">> ->
            <<ErrorLog(<<"Authentication failed - check username and password">>)>>
       [] OTHER -> <<>>)

\* the interpreter destroys the connection object: an open connection is closed
Destroy(c) ==
    IF c.state = "open" THEN [c EXCEPT !.state = "closed", !.closes = @ + 1] ELSE c

DestroyEvents(c) == IF c.state = "open" THEN <<Event("close", "dealloc", TRUE)>> ELSE <<>>

----------------------------------------------------------------------------
(* Initial state *)

\* the environments the process is started in: one complete, one without password
StartEnvironments ==
    {e \in Environments :
        /\ e["MSSQL_USER"] = <<"s","a">>
        /\ e["MSSQL_DATABASE"] = <<"d","b">>
        /\ e["MSSQL_PASSWORD"] \in {None, <<"a","b","!","c","d","e">>}}

\* config, _ = get_db_config() in main()
MainLocals(e) == [config |-> RedactedConfig(e), connstr |-> ConnectionString(e)]

Init ==
    /\ env \in StartEnvironments
    /\ main = NoMain
    /\ tables \in SUBSET TableNames
    /\ pc = "main"
    /\ req = NoReq
    /\ config = None
    /\ connstr = None
    /\ conn = NoConn
    /\ cur = NoCursor
    /\ exc = NoExc
    /\ ret = NoRet
    /\ result = NoResult
    /\ events = <<>>
    /\ log = <<>>

----------------------------------------------------------------------------
(* Startup *)

\* main() up to app.run: get_db_config is called once and its result logged; a
\* ValueError of get_db_config ends the process
Main ==
    /\ pc = "main"
    /\ IF ConfigMissing(env)
       THEN /\ log' = <<Info(<<"Starting MSSQL MCP server...">>)>> \o GetDbConfigLog(env)
            /\ pc' = "exited"
            /\ UNCHANGED main
       ELSE /\ main' = MainLocals(env)
            /\ log' = <<Info(<<"Starting MSSQL MCP server...">>)>> \o GetDbConfigLog(env)
                       \o <<Info(<<"Database config: ">> \o main'.config.server \o <<"/">>
                                 \o main'.config.database \o <<" as ">> \o main'.config.user)>>
            /\ pc' = "idle"
    /\ UNCHANGED <<env, tables, req, config, connstr, conn, cur, exc, ret, result, events>>

----------------------------------------------------------------------------
(* The environment between requests *)

\* os.environ is changed between two requests; get_db_config reads it anew
SetEnv(e) ==
    /\ pc = "idle"
    /\ e # env
    /\ env' = e
    /\ UNCHANGED <<main, tables, pc, req, config, connstr, conn, cur, exc, ret, result, events, log>>

\* tables are created or dropped
ChangeTables(S) ==
    /\ pc = "idle"
    /\ S # tables
    /\ tables' = S
    /\ UNCHANGED <<env, main, pc, req, config, connstr, conn, cur, exc, ret, result, events, log>>

\* the protocol layer delivers a request
Receive(r) ==
    /\ pc = "idle"
    /\ req' = r
    /\ pc' = IF r.op = "list_tools" THEN "tools" ELSE "config"
    /\ log' = <<>>
    /\ UNCHANGED <<env, main, tables, config, connstr, conn, cur, exc, ret, result, events>>

Requests ==
    {[op |-> "list_resources", name |-> <<>>, query |-> <<>>, uri |-> <<>>],
     [op |-> "list_tools", name |-> <<>>, query |-> <<>>, uri |-> <<>>]}
    \cup {[op |-> "read_resource", name |-> <<>>, query |-> <<>>, uri |-> u] : u \in Uris}
    \cup {[op |-> "call_tool", name |-> n, query |-> q, uri |-> <<>>] :
            n \in ToolNames, q \in Queries}

\* the protocol layer drops the exception the handler raised, and with it the
\* traceback, the handler's frame and the connection object the frame still held
DropException ==
    /\ pc = "done"
    /\ result.kind = "raise"
    /\ conn.state = "open"
    /\ conn' = Destroy(conn)
    /\ events' = events \o DestroyEvents(conn)
    /\ UNCHANGED <<env, main, tables, pc, req, config, connstr, cur, exc, ret, result, log>>

\* the end of a request as it would be if the handler's connection and cursor
\* were kept in module-level variables for the next request
Respond_KeepingConnection ==
    /\ pc = "done"
    /\ conn.state # "open"
    /\ pc' = "idle"
    /\ req' = NoReq
    /\ config' = None
    /\ connstr' = None
    /\ exc' = NoExc
    /\ ret' = NoRet
    /\ result' = NoResult
    /\ events' = <<>>
    /\ log' = <<>>
    /\ UNCHANGED <<env, main, tables, conn, cur>>

\* the request is over: the protocol layer has sent the response
Respond ==
    /\ pc = "done"
    /\ conn.state # "open"
    /\ pc' = "idle"
    /\ req' = NoReq
    /\ config' = None
    /\ connstr' = None
    /\ conn' = NoConn
    /\ cur' = NoCursor
    /\ exc' = NoExc
    /\ ret' = NoRet
    /\ result' = NoResult
    /\ events' = <<>>
    /\ log' = <<>>
    /\ UNCHANGED <<env, main, tables>>

----------------------------------------------------------------------------
(* Steps common to the handlers *)

\* list_tools, whole
ListTools ==
    /\ pc = "tools"
    /\ log' = log \o <<Info(<<"Listing tools...">>)>>
    /\ result' = [kind |-> "return", exc |-> NoExc, value |-> <<ToolDescriptor>>]
    /\ pc' = "done"
    /\ UNCHANGED <<env, main, tables, req, config, connstr, conn, cur, exc, ret, events>>

\* the handlers' first statement as it would be if they used the connection
\* string main() resolved at startup
GetDbConfig_AtStart ==
    /\ pc = "config"
    /\ log' = log \o GetDbConfigLog(env)
    /\ config' = main.config
    /\ connstr' = main.connstr
    /\ pc' = "begin"
    /\ UNCHANGED <<env, main, tables, req, conn, cur, exc, ret, result, events>>

\* config, connection_string = get_db_config(), the first statement of each handler
GetDbConfig ==
    /\ pc = "config"
    /\ log' = log \o GetDbConfigLog(env)
    /\ IF ConfigMissing(env)
       THEN /\ result' = [kind |-> "raise",
                          exc |-> [type |-> "ValueError",
                                   msg |-> <<"Missing required database configuration">>],
                          value |-> <<>>]
            /\ pc' = "done"
            /\ UNCHANGED <<config, connstr>>
       ELSE /\ config' = RedactedConfig(env)
            /\ connstr' = ConnectionString(env)
            /\ pc' = "begin"
            /\ UNCHANGED result
    /\ UNCHANGED <<env, main, tables, req, conn, cur, exc, ret, events>>

\* list_resources up to its connect
ListResourcesBegin ==
    /\ pc = "begin"
    /\ req.op = "list_resources"
    /\ log' = log \o <<Info(<<"Attempting to connect to database to list resources...">>)>>
    /\ pc' = "connect"
    /\ UNCHANGED <<env, main, tables, req, config, connstr, conn, cur, exc, ret, result, events>>

\* read_resource as it would be without the check of the scheme prefix
ReadResourceBegin_SchemeUnchecked ==
    /\ pc = "begin"
    /\ req.op = "read_resource"
    /\ log' = log \o <<Info(<<"Reading resource: ">> \o req.uri)>>
    /\ pc' = "connect"
    /\ UNCHANGED <<env, main, tables, req, config, connstr, conn, cur, exc, ret, result, events>>

\* read_resource up to its connect: the scheme check and the table name
ReadResourceBegin ==
    /\ pc = "begin"
    /\ req.op = "read_resource"
    /\ log' = log \o <<Info(<<"Reading resource: ">> \o req.uri)>>
    /\ IF ~StartsWith(req.uri, Scheme)
       THEN /\ result' = [kind |-> "raise",
                          exc |-> [type |-> "ValueError",
                                   msg |-> <<"Invalid URI scheme: ">> \o req.uri],
                          value |-> <<>>]
            /\ pc' = "done"
       ELSE /\ pc' = "connect"
            /\ UNCHANGED result
    /\ UNCHANGED <<env, main, tables, req, config, connstr, conn, cur, exc, ret, events>>

\* call_tool as it would be without the check of the tool name
CallToolBegin_NameUnchecked ==
    /\ pc = "begin"
    /\ req.op = "call_tool"
    /\ log' = log \o <<Info(<<"Calling tool: ">> \o req.name \o <<" with arguments: ">>
                            \o Str(req.query))>>
    /\ IF ~Truthy(req.query)
       THEN /\ result' = [kind |-> "raise",
                          exc |-> [type |-> "ValueError", msg |-> <<"Query is required">>],
                          value |-> <<>>]
            /\ pc' = "done"
       ELSE /\ pc' = "connect"
            /\ UNCHANGED result
    /\ UNCHANGED <<env, main, tables, req, config, connstr, conn, cur, exc, ret, events>>

\* call_tool up to its connect: the tool name and the query argument
CallToolBegin ==
    /\ pc = "begin"
    /\ req.op = "call_tool"
    /\ log' = log \o <<Info(<<"Calling tool: ">> \o req.name \o <<" with arguments: ">>
                            \o Str(req.query))>>
    /\ IF req.name # ToolName
       THEN /\ result' = [kind |-> "raise",
                          exc |-> [type |-> "ValueError",
                                   msg |-> <<"Unknown tool: ">> \o req.name],
                          value |-> <<>>]
            /\ pc' = "done"
       ELSE IF ~Truthy(req.query)
       THEN /\ result' = [kind |-> "raise",
                          exc |-> [type |-> "ValueError", msg |-> <<"Query is required">>],
                          value |-> <<>>]
            /\ pc' = "done"
       ELSE /\ pc' = "connect"
            /\ UNCHANGED result
    /\ UNCHANGED <<env, main, tables, req, config, connstr, conn, cur, exc, ret, events>>

\* connect(connection_string) succeeds
ConnectOk ==
    /\ pc = "connect"
    /\ conn' = [state |-> "open", commits |-> 0, closes |-> 0]
    /\ events' = Append(events, Event("connect", connstr, TRUE))
    /\ log' = IF req.op = "list_resources"
              THEN log \o <<Info(<<"Database connection established successfully">>)>>
              ELSE log
    /\ pc' = "execute"
    /\ UNCHANGED <<env, main, tables, req, config, connstr, cur, exc, ret, result>>

\* connect as it would be if its first failure were answered by a second attempt
ConnectFail_Retrying(m) ==
    /\ pc = "connect"
    /\ events' = Append(events, Event("connect", connstr, FALSE))
    /\ IF events = <<>>
       THEN /\ pc' = "connect"
            /\ UNCHANGED exc
       ELSE /\ exc' = [type |-> "Error", msg |-> m]
            /\ pc' = "finish"
    /\ UNCHANGED <<env, main, tables, req, config, connstr, conn, cur, ret, result, log>>

\* connect(connection_string) raises pyodbc.Error: no `with` block was entered
ConnectFail(m) ==
    /\ pc = "connect"
    /\ events' = Append(events, Event("connect", connstr, FALSE))
    /\ exc' = [type |-> "Error", msg |-> m]
    /\ pc' = "finish"
    /\ UNCHANGED <<env, main, tables, req, config, connstr, conn, cur, ret, result, log>>

\* the answers the server can give to the handler's first statement
FirstResponses ==
    CASE req.op = "list_resources" -> CatalogResponses
      [] req.op = "read_resource" -> {r \in Responses : r.hasResult} \cup ReadResponses
      [] OTHER -> Responses

\* conn.cursor() and the first cursor.execute succeed
ExecuteOk(r) ==
    /\ pc = "execute"
    /\ r \in FirstResponses
    /\ cur' = r
    /\ events' = Append(events, Event("execute", Statement(req), TRUE))
    /\ pc' = "body"
    /\ UNCHANGED <<env, main, tables, req, config, connstr, conn, exc, ret, result, log>>

\* the first cursor.execute raises pyodbc.Error
ExecuteFail(m) ==
    /\ pc = "execute"
    /\ events' = Append(events, Event("execute", Statement(req), FALSE))
    /\ exc' = [type |-> "Error", msg |-> m]
    /\ pc' = "exit"
    /\ UNCHANGED <<env, main, tables, req, config, connstr, conn, cur, ret, result, log>>

----------------------------------------------------------------------------
(* The bodies of the `with` blocks *)

\* a driver call's outcome: Ok, or the text of the pyodbc.Error it raises
Ok == <<>>
Outcomes == {Ok} \cup ErrorTexts

TextContent(text) == [type |-> "text", text |-> text]

\* list_resources: fetchall and the Resource list
ListResourcesFetch ==
    /\ pc = "body"
    /\ req.op = "list_resources"
    /\ events' = Append(events, Event("fetchall", <<>>, TRUE))
    /\ log' = log \o <<Info(<<"Found ">> \o IntText(Len(cur.rows)) \o <<" tables">>)>>
    /\ ret' = [set |-> TRUE, value |-> Resources(cur)]
    /\ pc' = "exit"
    /\ UNCHANGED <<env, main, tables, req, config, connstr, conn, cur, exc, result>>

\* read_resource: cursor.description, fetchall and the rendered table
ReadResourceFetch ==
    /\ pc = "body"
    /\ req.op = "read_resource"
    /\ events' = Append(events, Event("fetchall", <<>>, TRUE))
    /\ ret' = [set |-> TRUE, value |-> RenderTable(cur)]
    /\ pc' = "exit"
    /\ UNCHANGED <<env, main, tables, req, config, connstr, conn, cur, exc, result, log>>

\* call_tool, "SHOW TABLES": the catalog query is executed on the same cursor
CallToolCatalogExecute(o) ==
    /\ pc = "body"
    /\ req.op = "call_tool"
    /\ IsShowTables(req.query)
    /\ events' = Append(events, Event("execute", CatalogQuery, o = Ok))
    /\ IF o = Ok
       THEN /\ \E r \in CatalogResponses : cur' = r
            /\ pc' = "catalog"
            /\ UNCHANGED exc
       ELSE /\ exc' = [type |-> "Error", msg |-> o]
            /\ pc' = "exit"
            /\ UNCHANGED cur
    /\ UNCHANGED <<env, main, tables, req, config, connstr, conn, ret, result, log>>

\* call_tool, "SHOW TABLES": fetchall and the header line with the table names
CallToolCatalogFetch ==
    /\ pc = "catalog"
    /\ events' = Append(events, Event("fetchall", <<>>, TRUE))
    /\ ret' = [set |-> TRUE, value |-> <<TextContent(RenderShowTables(config, cur))>>]
    /\ pc' = "exit"
    /\ UNCHANGED <<env, main, tables, req, config, connstr, conn, cur, exc, result, log>>

\* call_tool, a query that starts with SELECT: description, fetchall, the rendered
\* table; cursor.description is None when the statement produced no result set,
\* and iterating it raises TypeError
CallToolSelect ==
    /\ pc = "body"
    /\ req.op = "call_tool"
    /\ ~IsShowTables(req.query)
    /\ IsSelect(req.query)
    /\ IF cur.hasResult
       THEN /\ events' = Append(events, Event("fetchall", <<>>, TRUE))
            /\ ret' = [set |-> TRUE, value |-> <<TextContent(RenderTable(cur))>>]
            /\ UNCHANGED exc
       ELSE /\ exc' = [type |-> "TypeError", msg |-> <<"'NoneType' object is not iterable">>]
            /\ UNCHANGED <<events, ret>>
    /\ pc' = "exit"
    /\ UNCHANGED <<env, main, tables, req, config, connstr, conn, cur, result, log>>

\* cursor.fetchall() raises pyodbc.Error
FetchFail(m) ==
    /\ \/ pc = "body" /\ req.op \in {"list_resources", "read_resource"}
       \/ pc = "body" /\ req.op = "call_tool" /\ ~IsShowTables(req.query)
          /\ IsSelect(req.query) /\ cur.hasResult
       \/ pc = "catalog"
    /\ events' = Append(events, Event("fetchall", <<>>, FALSE))
    /\ exc' = [type |-> "Error", msg |-> m]
    /\ pc' = "exit"
    /\ UNCHANGED <<env, main, tables, req, config, connstr, conn, cur, ret, result, log>>

\* call_tool as it would be if a failure of conn.commit() were swallowed
CallToolCommit_FailureIgnored(o) ==
    /\ pc = "body"
    /\ req.op = "call_tool"
    /\ ~IsShowTables(req.query)
    /\ ~IsSelect(req.query)
    /\ events' = Append(events, Event("commit", "conn.commit", o = Ok))
    /\ conn' = IF o = Ok THEN [conn EXCEPT !.commits = @ + 1] ELSE conn
    /\ ret' = [set |-> TRUE, value |-> <<TextContent(RenderAck(cur))>>]
    /\ pc' = "exit"
    /\ UNCHANGED <<env, main, tables, req, config, connstr, cur, exc, result, log>>

\* call_tool, any other query: conn.commit() and the acknowledgment
CallToolCommit(o) ==
    /\ pc = "body"
    /\ req.op = "call_tool"
    /\ ~IsShowTables(req.query)
    /\ ~IsSelect(req.query)
    /\ events' = Append(events, Event("commit", "conn.commit", o = Ok))
    /\ IF o = Ok
       THEN /\ conn' = [conn EXCEPT !.commits = @ + 1]
            /\ ret' = [set |-> TRUE, value |-> <<TextContent(RenderAck(cur))>>]
            /\ UNCHANGED exc
       ELSE /\ exc' = [type |-> "Error", msg |-> o]
            /\ UNCHANGED <<conn, ret>>
    /\ pc' = "exit"
    /\ UNCHANGED <<env, main, tables, req, config, connstr, cur, result, log>>

----------------------------------------------------------------------------
(* Leaving the `with` blocks: pyodbc's Cursor.__exit__ and Connection.__exit__ *)

\* `with conn.cursor() as cursor` is left: a commit when no exception is travelling
CursorExit(o) ==
    /\ pc = "exit"
    /\ IF exc = NoExc
       THEN /\ events' = Append(events, Event("commit", "Cursor.__exit__", o = Ok))
            /\ IF o = Ok
               THEN /\ conn' = [conn EXCEPT !.commits = @ + 1]
                    /\ UNCHANGED <<exc, ret>>
               ELSE /\ exc' = [type |-> "Error", msg |-> o]
                    /\ ret' = NoRet
                    /\ UNCHANGED conn
       ELSE /\ o = Ok
            /\ UNCHANGED <<events, conn, exc, ret>>
    /\ pc' = "exit_conn"
    /\ UNCHANGED <<env, main, tables, req, config, connstr, cur, result, log>>

\* `with connect(...) as conn` is left: a commit when no exception is travelling,
\* a rollback otherwise; the connection stays open
ConnectionExit(o) ==
    /\ pc = "exit_conn"
    /\ IF exc = NoExc
       THEN /\ events' = Append(events, Event("commit", "Connection.__exit__", o = Ok))
            /\ conn' = IF o = Ok THEN [conn EXCEPT !.commits = @ + 1] ELSE conn
       ELSE /\ events' = Append(events, Event("rollback", "Connection.__exit__", o = Ok))
            /\ UNCHANGED conn
    /\ IF o = Ok
       THEN UNCHANGED <<exc, ret>>
       ELSE /\ exc' = [type |-> "Error", msg |-> o]
            /\ ret' = NoRet
    /\ pc' = "finish"
    /\ UNCHANGED <<env, main, tables, req, config, connstr, cur, result, log>>

----------------------------------------------------------------------------
(* The except clauses and the end of the handler *)

\* no exception: the handler returns the value its return statement computed; the
\* frame is torn down and the connection object destroyed
Return ==
    /\ pc = "finish"
    /\ exc = NoExc
    /\ result' = [kind |-> "return", exc |-> NoExc, value |-> ret.value]
    /\ conn' = Destroy(conn)
    /\ events' = events \o DestroyEvents(conn)
    /\ pc' = "done"
    /\ UNCHANGED <<env, main, tables, req, config, connstr, cur, exc, ret, log>>

\* list_resources as it would be if its except clause raised like read_resource's
ListResourcesExcept_Raising ==
    /\ pc = "finish"
    /\ req.op = "list_resources"
    /\ exc.type = "Error"
    /\ log' = log \o ListFailureLog(exc)
    /\ result' = [kind |-> "raise",
                  exc |-> [type |-> "RuntimeError", msg |-> <<"Database error: ">> \o exc.msg],
                  value |-> <<>>]
    /\ pc' = "done"
    /\ UNCHANGED <<env, main, tables, req, config, connstr, conn, cur, exc, ret, events>>

\* list_resources, except Error: the diagnostics, then return []
ListResourcesExcept ==
    /\ pc = "finish"
    /\ req.op = "list_resources"
    /\ exc.type = "Error"
    /\ log' = log \o ListFailureLog(exc)
    /\ result' = [kind |-> "return", exc |-> NoExc, value |-> <<>>]
    /\ conn' = Destroy(conn)
    /\ events' = events \o DestroyEvents(conn)
    /\ pc' = "done"
    /\ UNCHANGED <<env, main, tables, req, config, connstr, cur, exc, ret>>

\* read_resource as it would be if its except clause degraded like list_resources'
ReadResourceExcept_Degrading ==
    /\ pc = "finish"
    /\ req.op = "read_resource"
    /\ exc.type = "Error"
    /\ log' = Append(log, ErrorLog(<<"Database error reading resource ">> \o req.uri
                                   \o <<": ">> \o exc.msg))
    /\ result' = [kind |-> "return", exc |-> NoExc, value |-> <<>>]
    /\ conn' = Destroy(conn)
    /\ events' = events \o DestroyEvents(conn)
    /\ pc' = "done"
    /\ UNCHANGED <<env, main, tables, req, config, connstr, cur, exc, ret>>

\* read_resource, except Error: raise RuntimeError; the traceback keeps the frame
\* and the connection object in it alive
ReadResourceExcept ==
    /\ pc = "finish"
    /\ req.op = "read_resource"
    /\ exc.type = "Error"
    /\ log' = Append(log, ErrorLog(<<"Database error reading resource ">> \o req.uri
                                   \o <<": ">> \o exc.msg))
    /\ result' = [kind |-> "raise",
                  exc |-> [type |-> "RuntimeError", msg |-> <<"Database error: ">> \o exc.msg],
                  value |-> <<>>]
    /\ pc' = "done"
    /\ UNCHANGED <<env, main, tables, req, config, connstr, conn, cur, exc, ret, events>>

\* call_tool as it would be if its except clause caught pyodbc.Error only and raised
CallToolExcept_Raising ==
    /\ pc = "finish"
    /\ req.op = "call_tool"
    /\ exc # NoExc
    /\ log' = Append(log, ErrorLog(<<"Error executing SQL '">> \o req.query \o <<"': ">>
                                   \o exc.msg))
    /\ result' = [kind |-> "raise",
                  exc |-> [type |-> "RuntimeError", msg |-> <<"Database error: ">> \o exc.msg],
                  value |-> <<>>]
    /\ pc' = "done"
    /\ UNCHANGED <<env, main, tables, req, config, connstr, conn, cur, exc, ret, events>>

\* call_tool, except Exception: the error text is returned
CallToolExcept ==
    /\ pc = "finish"
    /\ req.op = "call_tool"
    /\ exc # NoExc
    /\ log' = Append(log, ErrorLog(<<"Error executing SQL '">> \o req.query \o <<"': ">>
                                   \o exc.msg))
    /\ result' = [kind |-> "return", exc |-> NoExc,
                  value |-> <<TextContent(RenderError(exc))>>]
    /\ conn' = Destroy(conn)
    /\ events' = events \o DestroyEvents(conn)
    /\ pc' = "done"
    /\ UNCHANGED <<env, main, tables, req, config, connstr, cur, exc, ret>>

----------------------------------------------------------------------------
(* The specification *)

Next ==
    \/ Main
    \/ \E e \in Environments : SetEnv(e)
    \/ \E S \in SUBSET TableNames : ChangeTables(S)
    \/ \E r \in Requests : Receive(r)
    \/ ListTools
    \/ GetDbConfig
    \/ ListResourcesBegin
    \/ ReadResourceBegin
    \/ CallToolBegin
    \/ ConnectOk
    \/ \E m \in ErrorTexts : ConnectFail(m)
    \/ \E r \in Responses \cup CatalogResponses : ExecuteOk(r)
    \/ \E m \in ErrorTexts : ExecuteFail(m)
    \/ ListResourcesFetch
    \/ ReadResourceFetch
    \/ \E o \in Outcomes : CallToolCatalogExecute(o)
    \/ CallToolCatalogFetch
    \/ CallToolSelect
    \/ \E m \in ErrorTexts : FetchFail(m)
    \/ \E o \in Outcomes : CallToolCommit(o)
    \/ \E o \in Outcomes : CursorExit(o)
    \/ \E o \in Outcomes : ConnectionExit(o)
    \/ Return
    \/ ListResourcesExcept
    \/ ReadResourceExcept
    \/ CallToolExcept
    \/ DropException
    \/ Respond

Spec == Init /\ [][Next]_vars

----------------------------------------------------------------------------
(* get_db_config alone, over environments that set every variable it reads *)

\* values of the variables with a default: unset, plain, quoted
DriverValues == {None, <<"'","D","'">>}
HostValues == {None, <<"\"","h","\"">>}
PortValues == {None, <<"'","1","'">>}
TrustValues == {None, <<"n","o">>, <<"'","n","o","'">>}
EncryptValues == {None, <<"\"","n","o","\"">>}
ConnectionTimeoutValues == {None, <<"'","5","'">>}
LoginTimeoutValues == {None, <<"\"","5","\"">>}

ConfigEnvironments ==
    {[MSSQL_DRIVER |-> dr, MSSQL_HOST |-> h, MSSQL_PORT |-> po, MSSQL_USER |-> u,
      MSSQL_PASSWORD |-> <<"\"","a","b","#","c","d","e","\"">>,
      MSSQL_DATABASE |-> <<"d","b">>,
      TrustServerCertificate |-> t, Encrypt |-> en, ConnectionTimeout |-> ct,
      LoginTimeout |-> lt] :
        dr \in DriverValues, h \in HostValues, po \in PortValues, u \in UserValues,
        t \in TrustValues, en \in EncryptValues, ct \in ConnectionTimeoutValues,
        lt \in LoginTimeoutValues}

\* a list_resources request has been received and its handler is about to call
\* get_db_config
InitConfig ==
    /\ env \in ConfigEnvironments
    /\ main \in {MainLocals(e) : e \in {s \in StartEnvironments : ~ConfigMissing(s)}}
    /\ tables = {}
    /\ pc = "config"
    /\ req = [op |-> "list_resources", name |-> <<>>, query |-> <<>>, uri |-> <<>>]
    /\ config = None
    /\ connstr = None
    /\ conn = NoConn
    /\ cur = NoCursor
    /\ exc = NoExc
    /\ ret = NoRet
    /\ result = NoResult
    /\ events = <<>>
    /\ log = <<>>

NextConfig == GetDbConfig

SpecConfig == InitConfig /\ [][NextConfig]_vars

----------------------------------------------------------------------------
(* list_resources and read_resource over tables of any name, size and content *)

\* names of base tables; SQL Server accepts any character in a delimited name
ReadTableNames == {<<"a">>, <<"a","/","b">>}

\* list_resources, and read_resource with the address list_resources gives a table
ReadRequests ==
    {[op |-> "list_resources", name |-> <<>>, query |-> <<>>, uri |-> <<>>]}
    \cup {[op |-> "read_resource", name |-> <<>>, query |-> <<>>,
           uri |-> Scheme \o T \o <<"/","d","a","t","a">>] : T \in ReadTableNames}

InitRead ==
    /\ env \in {e \in StartEnvironments : ~ConfigMissing(e)}
    /\ main = NoMain
    /\ tables \in SUBSET ReadTableNames
    /\ pc = "main"
    /\ req = NoReq
    /\ config = None
    /\ connstr = None
    /\ conn = NoConn
    /\ cur = NoCursor
    /\ exc = NoExc
    /\ ret = NoRet
    /\ result = NoResult
    /\ events = <<>>
    /\ log = <<>>

NextRead ==
    \/ Main
    \/ \E S \in SUBSET ReadTableNames : ChangeTables(S)
    \/ \E r \in ReadRequests : Receive(r)
    \/ GetDbConfig
    \/ ListResourcesBegin
    \/ ReadResourceBegin
    \/ ConnectOk
    \/ \E m \in ErrorTexts : ConnectFail(m)
    \/ \E r \in ReadResponses \cup CatalogResponses : ExecuteOk(r)
    \/ \E m \in ErrorTexts : ExecuteFail(m)
    \/ ListResourcesFetch
    \/ ReadResourceFetch
    \/ \E m \in ErrorTexts : FetchFail(m)
    \/ \E o \in Outcomes : CursorExit(o)
    \/ \E o \in Outcomes : ConnectionExit(o)
    \/ Return
    \/ ListResourcesExcept
    \/ ReadResourceExcept
    \/ DropException
    \/ Respond

SpecRead == InitRead /\ [][NextRead]_vars

----------------------------------------------------------------------------
(* Vocabulary of the properties *)

\* the handler has returned or raised
Done == pc = "done"

\* the driver calls of this request that raised
FailedCalls == {i \in DOMAIN events : ~events[i].ok}

\* the driver calls of one kind
Calls(kind) == {i \in DOMAIN events : events[i].call = kind}

\* the transactions committed on the request's connection
CommittedCalls == {i \in Calls("commit") : events[i].ok}

\* call_tool got past its argument checks
ValidCall == req.op = "call_tool" /\ req.name = ToolName /\ Truthy(req.query)

\* the handler returned exactly this text payload
ReturnsText(text) == result.kind = "return" /\ result.value = <<TextContent(text)>>

\* the handler raised an exception of this type with this message
Raises(type, msg) == result.kind = "raise" /\ result.exc = [type |-> type, msg |-> msg]

\* text.split("\n")
RECURSIVE SplitLines(_)
SplitLines(text) ==
    IF FirstIndex(text, "\n") = 0 THEN <<text>>
    ELSE <<SubSeq(text, 1, FirstIndex(text, "\n") - 1)>>
         \o SplitLines(SubSeq(text, FirstIndex(text, "\n") + 1, Len(text)))

----------------------------------------------------------------------------
(* C1 *)

\* C1: when list_resources, read_resource or call_tool has returned or raised, a
\* connection it opened has been closed, exactly once, on every exit path.
C1_ClosedOnceWhenHandlerEnds ==
    Done /\ Calls("connect") \ FailedCalls # {}
        => conn.state = "closed" /\ conn.closes = 1 /\ Cardinality(Calls("close")) = 1

----------------------------------------------------------------------------
(* C2 *)

\* get_db_config returned: the settings were complete
ConfigResolved == connstr # None

\* C2: when call_tool is invoked with name "execute_sql" and a non-empty query, a
\* failure of connect, execute, the classification, fetchall or commit ends in a
\* returned text payload carrying the error's description; nothing is raised.
C2_FailureBecomesErrorText ==
    Done /\ ValidCall /\ (FailedCalls # {} \/ exc # NoExc)
        => ReturnsText(<<"Error executing query: ">> \o exc.msg)

\* a call_tool whose statement the server rejected has returned
C2_Witness ==
    /\ Done /\ ValidCall /\ result.kind = "return"
    /\ \E i \in FailedCalls : events[i].call = "execute"

----------------------------------------------------------------------------
(* C3 *)

AckPrefix == <<"Query executed successfully. Rows affected: ">>

\* C3: for a call_tool whose trimmed, upper-cased query starts with "SELECT", no
\* transaction is committed on the connection during the call and the returned
\* text is not a "Rows affected" acknowledgment.
C3_SelectNeverCommits ==
    Done /\ ValidCall /\ IsSelect(req.query)
        => /\ Calls("commit") = {}
           /\ conn.commits = 0
           /\ ~(result.kind = "return" /\ StartsWith(result.value[1].text, AckPrefix))

----------------------------------------------------------------------------
(* C4 *)

\* the query is neither the SHOW TABLES shorthand nor SELECT-like
IsOther(query) == ~IsShowTables(query) /\ ~IsSelect(query)

\* C4 as stated: a call_tool whose query is neither "SHOW TABLES" nor starts with
\* "SELECT" always answers with the acknowledgment carrying the driver's count.
C4_AlwaysAcknowledged ==
    Done /\ ValidCall /\ ConfigResolved /\ IsOther(req.query)
        => ReturnsText(AckPrefix \o IntText(cur.rowcount))

\* C4 as amended: such a call answers with the acknowledgment carrying the driver's
\* count, 0 included, when no driver call of the request failed, and with the
\* error text when one did.
C4_AcknowledgedUnlessFailed ==
    Done /\ ValidCall /\ ConfigResolved /\ IsOther(req.query)
        => IF FailedCalls = {}
           THEN ReturnsText(AckPrefix \o IntText(cur.rowcount))
           ELSE ReturnsText(<<"Error executing query: ">> \o exc.msg)

\* a statement that affected no row was acknowledged with the count 0
C4_Witness ==
    /\ Done /\ ValidCall /\ IsOther(req.query)
    /\ cur.rowcount = 0
    /\ ReturnsText(AckPrefix \o <<"0">>)

----------------------------------------------------------------------------
(* C5 *)

\* C5: call_tool("execute_sql", {query: "SHOW TABLES"}) returns the line
\* "Tables_in_<database>" followed by exactly the base tables list_resources would
\* enumerate, in any order. Stated for the runs in which the connection, the
\* catalog query, its fetch and the end of the transaction all succeeded.
C5_ShowTablesListsTables ==
    /\ Done /\ ValidCall /\ ConfigResolved /\ IsShowTables(req.query)
    /\ \A i \in FailedCalls : events[i] = Event("execute", req.query, FALSE)
    => /\ result.kind = "return"
       /\ LET lines == SplitLines(result.value[1].text)
          IN  /\ lines[1] = <<"Tables_in_">> \o Database(env)
              /\ Range(Tail(lines)) = tables
              /\ Len(Tail(lines)) = Cardinality(tables)

----------------------------------------------------------------------------
(* C6 *)

\* C6: when connect, the catalog query or its fetch fails, whatever the failure,
\* list_resources returns an empty list and raises nothing.
C6_ListDegradesToEmpty ==
    Done /\ req.op = "list_resources" /\ FailedCalls # {}
        => result.kind = "return" /\ result.value = <<>>

\* list_resources has returned after its connect failed
C6_Witness ==
    /\ Done /\ req.op = "list_resources"
    /\ \E i \in FailedCalls : events[i].call = "connect"
    /\ result.kind = "return"

----------------------------------------------------------------------------
(* C7 *)

\* C7: read_resource on an address with the scheme prefix raises a runtime error
\* whenever connect, execute or fetch failed; it returns nothing in that case.
C7_ReadPropagatesFailure ==
    Done /\ req.op = "read_resource" /\ StartsWith(req.uri, Scheme) /\ FailedCalls # {}
        => Raises("RuntimeError", <<"Database error: ">> \o exc.msg)

\* read_resource has raised after its fetch failed
C7_Witness ==
    /\ Done /\ req.op = "read_resource"
    /\ \E i \in FailedCalls : events[i].call = "fetchall"
    /\ result.kind = "raise"

----------------------------------------------------------------------------
(* C8 *)

\* the environment with another password
WithPassword(e, p) == [e EXCEPT !["MSSQL_PASSWORD"] = p]

\* C8: what get_db_config logs does not depend on the password: with any other
\* password in the environment (here: any other of the same length), the same
\* records would have been logged.
C8_LogIndependentOfPassword ==
    \A p \in PasswordValues :
        /\ pc \notin {"main", "exited", "idle", "config", "tools"} /\ req.op # "list_tools"
        /\ Truthy(Password(env)) /\ Truthy(Password(WithPassword(env, p)))
        /\ Len(Password(env)) = Len(Password(WithPassword(env, p)))
        => SubSeq(log, 1, Len(GetDbConfigLog(WithPassword(env, p))))
               = GetDbConfigLog(WithPassword(env, p))

----------------------------------------------------------------------------
(* C9 *)

\* what C9 says of a finished call_tool
C9_Rejected ==
    /\ req.name # ToolName
           => Raises("ValueError", <<"Unknown tool: ">> \o req.name) /\ Calls("connect") = {}
    /\ req.name = ToolName /\ ~Truthy(req.query)
           => Raises("ValueError", <<"Query is required">>) /\ Calls("connect") = {}

\* C9 as stated: a call_tool with another name fails with Unknown Tool, one with a
\* missing or empty query with Missing Argument; the error is raised and no
\* connection is opened.
C9_RejectedAlways == Done /\ req.op = "call_tool" => C9_Rejected

\* C9 as amended: the same, when the configuration is complete; when it is not,
\* the Configuration Error is raised first, and no connection is opened either.
C9_RejectedWhenConfigured ==
    Done /\ req.op = "call_tool"
        => IF ConfigResolved THEN C9_Rejected
           ELSE Raises("ValueError", <<"Missing required database configuration">>)
                /\ Calls("connect") = {}

\* a call_tool without a query was rejected
C9_Witness ==
    /\ Done /\ req.op = "call_tool" /\ req.name = ToolName /\ req.query = None
    /\ Raises("ValueError", <<"Query is required">>)

----------------------------------------------------------------------------
(* C10 *)

\* user, password or database is unset or empty in the environment
RequiredSettingAbsent ==
    \E v \in {"MSSQL_USER", "MSSQL_PASSWORD", "MSSQL_DATABASE"} : env[v] \in {None, <<>>}

\* C10: when user, password or database is absent or empty, list_resources,
\* read_resource and call_tool make no connection attempt at any point of the
\* request and end by raising the Configuration Error.
C10_ConfigErrorBeforeConnect ==
    req.op \in {"list_resources", "read_resource", "call_tool"} /\ RequiredSettingAbsent
        => /\ events = <<>>
           /\ Done => Raises("ValueError", <<"Missing required database configuration">>)

\* a read_resource without a database name has raised
C10_Witness ==
    /\ Done /\ req.op = "read_resource"
    /\ env["MSSQL_DATABASE"] = None /\ env["MSSQL_USER"] # None /\ env["MSSQL_PASSWORD"] # None
    /\ result.kind = "raise"


----------------------------------------------------------------------------
(* C11 *)

\* what C11 says of a finished read_resource whose address lacks the prefix
C11_Malformed ==
    /\ Raises("ValueError", <<"Invalid URI scheme: ">> \o req.uri)
    /\ events = <<>>

\* C11 as stated: read_resource with an address that does not begin with
\* "mssql://" raises the Malformed Address error, opens no connection and
\* executes no SQL.
C11_MalformedAlways ==
    Done /\ req.op = "read_resource" /\ ~StartsWith(req.uri, Scheme) => C11_Malformed

\* C11 as amended: the same, when the configuration is complete; when it is not,
\* the Configuration Error is raised first. No connection is opened and no SQL is
\* executed in either case, and the error is never the RuntimeError of a
\* database failure.
C11_MalformedWhenConfigured ==
    Done /\ req.op = "read_resource" /\ ~StartsWith(req.uri, Scheme)
        => /\ IF ConfigResolved THEN C11_Malformed
              ELSE Raises("ValueError", <<"Missing required database configuration">>)
           /\ events = <<>>
           /\ result.exc.type # "RuntimeError"

\* a read_resource of an http address was rejected
C11_Witness ==
    /\ Done /\ req.op = "read_resource" /\ ~StartsWith(req.uri, Scheme)
    /\ Raises("ValueError", <<"Invalid URI scheme: ">> \o req.uri)

----------------------------------------------------------------------------
(* C12 *)

\* the shape of a text call_tool returned
ShapeOf(text) ==
    IF StartsWith(text, <<"Error executing query: ">>) THEN "error"
    ELSE IF StartsWith(text, AckPrefix) THEN "acknowledgment"
    ELSE "tabular"

\* the shape the classification of the query text assigns
ClassifiedShape(query) ==
    IF IsShowTables(query) THEN "tabular"
    ELSE IF IsSelect(query) THEN "tabular"
    ELSE "acknowledgment"

\* C12: a call_tool that got to execute returns one text, and when no driver call
\* failed its shape is the one the trimmed, upper-cased query text assigns (SHOW
\* TABLES: tabular, SELECT prefix: tabular, else acknowledgment), whether or not
\* the driver returned a result set.
C12_ShapeFollowsQueryText ==
    Done /\ ValidCall /\ ConfigResolved
        => /\ result.kind = "return"
           /\ Len(result.value) = 1
           /\ FailedCalls = {} => ShapeOf(result.value[1].text) = ClassifiedShape(req.query)

----------------------------------------------------------------------------
(* C14 *)

\* C14: the connection string a request holds, and hands to connect, is the one
\* resolved from the environment as it is during that request, whatever main()
\* resolved at startup and whatever earlier requests resolved.
C14_ResolvedAtEachRequest ==
    /\ ConfigResolved => /\ connstr = ConnectionString(env)
                         /\ config = RedactedConfig(env)
    /\ \A i \in Calls("connect") : events[i].arg = ConnectionString(env)

\* a request connects with a connection string other than the one main() resolved:
\* the environment was changed after startup
C14_Witness ==
    /\ main.connstr # None
    /\ \E i \in Calls("connect") : events[i].arg # main.connstr /\ events[i].ok

----------------------------------------------------------------------------
(* C15 *)

\* C15: within a request connect is attempted at most once, no statement is
\* submitted twice, a driver call that failed is followed by no further attempt
\* (only by the rollback of the with-exit and the destruction of the
\* connection), and a failure ends in one report: the raised error of
\* read_resource, the error text of call_tool or the empty list of
\* list_resources.
C15_NothingRetried ==
    /\ Cardinality(Calls("connect")) <= 1
    /\ \A i, j \in Calls("execute") : events[i].arg = events[j].arg => i = j
    /\ \A i \in FailedCalls : \A j \in DOMAIN events :
           j > i => events[j].call \in {"rollback", "close"}
    /\ Done /\ FailedCalls # {}
           => CASE req.op = "list_resources" -> result.kind = "return" /\ result.value = <<>>
                [] req.op = "read_resource" -> result.kind = "raise"
                [] OTHER -> ReturnsText(<<"Error executing query: ">> \o exc.msg)

\* a request whose one connect failed has ended
C15_Witness ==
    /\ Done
    /\ Cardinality(Calls("connect")) = 1
    /\ Calls("connect") \subseteq FailedCalls

----------------------------------------------------------------------------
(* C18 *)

\* call_tool returned the "Rows affected" acknowledgment
Acknowledged ==
    Done /\ ValidCall /\ result.kind = "return" /\ StartsWith(result.value[1].text, AckPrefix)

\* the calls of conn.commit() the handler itself makes (line 214)
ExplicitCommits == {i \in Calls("commit") : events[i].arg = "conn.commit"}

\* C18: when call_tool returns the acknowledgment, conn.commit() was called
\* exactly once on the request's connection, it succeeded, it came after the
\* successful execute of the statement and before the connection was closed; a
\* failed conn.commit() is never followed by the acknowledgment.
C18_AcknowledgedAfterOneCommit ==
    /\ Acknowledged
           => /\ Cardinality(ExplicitCommits) = 1
              /\ \A i \in ExplicitCommits :
                     /\ events[i].ok
                     /\ \E j \in Calls("execute") :
                            j < i /\ events[j].ok /\ events[j].arg = req.query
                     /\ Calls("close") # {}
                     /\ \A k \in Calls("close") : i < k
    /\ Done /\ ExplicitCommits \cap FailedCalls # {} => ~Acknowledged

\* an UPDATE was committed and acknowledged
C18_Witness ==
    /\ Acknowledged
    /\ \E i \in ExplicitCommits : events[i].ok
    /\ conn.state = "closed"

----------------------------------------------------------------------------
(* C20 *)

\* C20: when call_tool returns an "Error executing query" text, no transaction was
\* committed on the request's connection during the call.
C20_ErrorImpliesNothingCommitted ==
    /\ Done /\ ValidCall /\ result.kind = "return"
    /\ ShapeOf(result.value[1].text) = "error"
    => CommittedCalls = {} /\ conn.commits = 0

----------------------------------------------------------------------------
(* C16 *)

\* the successful connects of the request in flight
OwnConnects == {i \in Calls("connect") : events[i].ok}

----------------------------------------------------------------------------
(* C17 *)

\* the value of a variable with one layer of surrounding quotes removed
Unquoted(e, name, default) == clean_env_var(e, name, default)

\* C17: the connection string get_db_config returns is built from the ten
\* configuration values with one layer of surrounding quotes removed from each;
\* a value without surrounding quotes appears unchanged.
C17_EveryValueUnquoted ==
    pc = "begin" /\ ConfigResolved
    => connstr =
         Join(<<";">>,
              << <<"Driver={">> \o Unquoted(env, "MSSQL_DRIVER", DefaultDriver) \o <<"}">>,
                 <<"Server=">> \o Unquoted(env, "MSSQL_HOST", DefaultHost) \o <<",">>
                     \o Unquoted(env, "MSSQL_PORT", DefaultPort),
                 <<"Database=">> \o Unquoted(env, "MSSQL_DATABASE", None),
                 <<"UID=">> \o Unquoted(env, "MSSQL_USER", None),
                 <<"PWD=">> \o Unquoted(env, "MSSQL_PASSWORD", None),
                 <<"TrustServerCertificate=">>
                     \o Unquoted(env, "TrustServerCertificate", <<"yes">>),
                 <<"Encrypt=">> \o Unquoted(env, "Encrypt", <<"yes">>),
                 <<"Connection Timeout=">> \o Unquoted(env, "ConnectionTimeout", <<"60">>),
                 <<"Login Timeout=">> \o Unquoted(env, "LoginTimeout", <<"60">>),
                 <<"MARS_Connection=yes">> >>)

----------------------------------------------------------------------------
(* C13 *)

\* len(text.split("\n"))
LineCount(text) == 1 + Cardinality({i \in DOMAIN text : text[i] = "\n"})

\* C13: with a valid configuration, read_resource on an existing table returns a
\* text whose first line is the comma-joined column names and which has at most
\* RowCap + 1 lines, whatever the table's size and cell contents.
C13_HeaderAndAtMostCapRows ==
    /\ Done /\ req.op = "read_resource" /\ TableOf(req.uri) \in tables
    /\ result.kind = "return"
    => /\ SplitHead(result.value, "\n") = Join(<<",">>, cur.columns)
       /\ LineCount(result.value) <= RowCap + 1

----------------------------------------------------------------------------
(* C19 *)

\* C19: for every table T that list_resources enumerates, read_resource on
\* "mssql://T/data" passes the scheme check and its select names exactly T.
C19_ReadSelectsListedTable ==
    \A T \in tables :
        req.op = "read_resource" /\ req.uri = Scheme \o T \o <<"/","d","a","t","a">>
        => /\ ~Raises("ValueError", <<"Invalid URI scheme: ">> \o req.uri)
           /\ \A i \in Calls("execute") :
                 events[i].arg = <<"SELECT TOP 100 * FROM ">> \o T

====
